---- MODULE Spec2Model ----
(***************************************************************************)
(* Model of src/123.mjs: the photo renumbering script.  A run lists the    *)
(* photos directory, assigns free numbers >= START_NUMBER to the files     *)
(* whose name is not purely numeric, renames them in two phases through    *)
(* temporary names and writes the manifest from a fresh listing.           *)
(*                                                                         *)
(* A file name is a record [base, ext] of two character sequences (the     *)
(* name is base "." ext); a character is a one-letter string.              *)
(***************************************************************************)
EXTENDS Integers, Sequences, FiniteSets, TLC

\* ---------------------------------------------------------------- bounds
MaxFiles == 3
MaxRuns == 2
MaxPad == 3
MaxNum == 120

\* ------------------------------------------------------------- constants
PROTECT_MIN == 1
PROTECT_MAX == 19
START_NUMBER == 20
PAD == 0
LABEL == "heart"
Null == -1

\* ------------------------------------------------------------ characters
DigitChars == <<"0", "1", "2", "3", "4", "5", "6", "7", "8", "9">>
LowerChars == <<"a", "b", "c", "d", "e", "f", "g", "h", "i", "j", "k", "l", "m",
                "n", "o", "p", "q", "r", "s", "t", "u", "v", "w", "x", "y", "z">>
UpperChars == <<"A", "B", "C", "D", "E", "F", "G", "H", "I", "J", "K", "L", "M",
                "N", "O", "P", "Q", "R", "S", "T", "U", "V", "W", "X", "Y", "Z">>
PunctChars == <<"_", ".">>

Range(s) == {s[i] : i \in 1..Len(s)}
IndexOf(c, s) == CHOOSE i \in 1..Len(s) : s[i] = c
IsDigit(c) == c \in Range(DigitChars)
DigitVal(c) == IndexOf(c, DigitChars) - 1

\* String.prototype.toLowerCase, per character and per string
LowerChar(c) == IF c \in Range(UpperChars) THEN LowerChars[IndexOf(c, UpperChars)] ELSE c
ToLowerCase(s) == [i \in 1..Len(s) |-> LowerChar(s[i])]

\* Number(base) for a string of decimal digits
RECURSIVE NumVal(_)
NumVal(s) == IF s = <<>> THEN 0
             ELSE NumVal(SubSeq(s, 1, Len(s) - 1)) * 10 + DigitVal(s[Len(s)])

\* String(n) for a natural number
RECURSIVE StringOfNum(_)
StringOfNum(n) == IF n < 10 THEN <<DigitChars[n + 1]>>
                  ELSE StringOfNum(n \div 10) \o <<DigitChars[(n % 10) + 1]>>

\* Variant: the string is cut to the width when it is longer
PadStart_Truncate(s, width) ==
    IF Len(s) > width THEN SubSeq(s, Len(s) - width + 1, Len(s))
    ELSE [i \in 1..(width - Len(s)) |-> "0"] \o s

\* String.prototype.padStart(width, "0")
PadStart(s, width) == [i \in 1..(width - Len(s)) |-> "0"] \o s

\* ------------------------------------------------------------ file names
Name(base, ext) == [base |-> base, ext |-> ext]
FullName(f) == f.base \o <<".">> \o f.ext

jpg == <<"j", "p", "g">>
png == <<"p", "n", "g">>
webp == <<"w", "e", "b", "p">>
txt == <<"t", "x", "t">>
exts == {jpg, <<"j", "p", "e", "g">>, png, webp, <<"g", "i", "f">>, <<"a", "v", "i", "f">>}

isPhoto(fileName) == ToLowerCase(fileName.ext) \in exts

parseLeadingNumber(fileName) ==
    IF fileName.base # <<>> /\ \A i \in 1..Len(fileName.base) : IsDigit(fileName.base[i])
    THEN NumVal(fileName.base)
    ELSE Null

\* fmtNum's body for a build whose PAD is pad
fmtNumWith(pad, n) == IF pad = 0 THEN StringOfNum(n) ELSE PadStart(StringOfNum(n), pad)

fmtNum(n) == fmtNumWith(PAD, n)

\* naturalSort: localeCompare with numeric: true, sensitivity: "base".  A
\* string is compared by its sequence of primary keys: a run of digits is
\* one key ordered by its value, letters compare without case, and
\* punctuation sorts before digits, digits before letters.
CharKey(c) ==
    IF c \in Range(PunctChars) THEN <<0, IndexOf(c, PunctChars)>>
    ELSE <<2, IndexOf(LowerChar(c), LowerChars)>>

DigitRun(s) ==
    CHOOSE r \in 0..Len(s) :
        /\ \A i \in 1..r : IsDigit(s[i])
        /\ (r < Len(s) => ~IsDigit(s[r + 1]))

RECURSIVE SortKey(_)
SortKey(s) ==
    IF s = <<>> THEN <<>>
    ELSE IF IsDigit(s[1])
         THEN <<<<1, NumVal(SubSeq(s, 1, DigitRun(s)))>>>>
                  \o SortKey(SubSeq(s, DigitRun(s) + 1, Len(s)))
         ELSE <<CharKey(s[1])>> \o SortKey(Tail(s))

RECURSIVE CmpKeys(_, _)
CmpKeys(a, b) ==
    IF a = <<>> /\ b = <<>> THEN 0
    ELSE IF a = <<>> THEN -1
    ELSE IF b = <<>> THEN 1
    ELSE IF a[1][1] # b[1][1] THEN (IF a[1][1] < b[1][1] THEN -1 ELSE 1)
    ELSE IF a[1][2] # b[1][2] THEN (IF a[1][2] < b[1][2] THEN -1 ELSE 1)
    ELSE CmpKeys(Tail(a), Tail(b))

naturalSort(a, b) == CmpKeys(SortKey(FullName(a)), SortKey(FullName(b)))

\* Variant: the comparator's arguments are swapped
NaturalCmp_Reversed(s) == [p \in Range(s) \X Range(s) |-> naturalSort(p[2], p[1])]

\* The comparators handed to sort, as functions on the pairs of elements of s
NaturalCmp(s) == [p \in Range(s) \X Range(s) |-> naturalSort(p[1], p[2])]

\* Array.prototype.sort: a stable sort under the comparator cmp, given as
\* the function from the pairs of elements of s to the comparator's result
SortStable(s, cmp) ==
    LET Insert(t, x) ==
            LET j == CHOOSE j \in 0..Len(t) :
                        /\ \A i \in (j + 1)..Len(t) : cmp[<<t[i], x>>] > 0
                        /\ (j = 0 \/ cmp[<<t[j], x>>] <= 0)
            IN SubSeq(t, 1, j) \o <<x>> \o SubSeq(t, j + 1, Len(t))
        sorted[i \in 0..Len(s)] ==
            IF i = 0 THEN <<>> ELSE Insert(sorted[i - 1], s[i])
    IN sorted[Len(s)]

\* toTempName: "__tmp__" Date.now() "__" random "__" original.  The pair
\* (timestamp, random suffix) is one character, stamp.
TmpPrefix(stamp) == <<"_", "_", "t", "m", "p", "_", "_", stamp, "_", "_">>

\* Variant: the temporary name does not contain the original name
toTempName_NoOriginal(stamp, original) == Name(TmpPrefix(stamp), original.ext)

toTempName(stamp, original) == Name(TmpPrefix(stamp) \o original.base, original.ext)

\* ------------------------------------------------------ directory content
\* The files a directory may hold before the first run.
f_1png == Name(<<"1">>, png)
f_3jpg == Name(<<"3">>, jpg)
f_5jpg == Name(<<"5">>, jpg)
f_01jpg == Name(<<"0", "1">>, jpg)
f_20webp == Name(<<"2", "0">>, webp)
f_20txt == Name(<<"2", "0">>, txt)
f_IMG_A == Name(<<"I", "M", "G", "_", "A">>, jpg)
f_img_aJPG == Name(<<"i", "m", "g", "_", "a">>, <<"J", "P", "G">>)
f_beach == Name(<<"b", "e", "a", "c", "h">>, jpg)
f_vacation == Name(<<"v", "a", "c", "a", "t", "i", "o", "n">>, png)
f_p9 == Name(<<"p", "9">>, jpg)
f_p10 == Name(<<"p", "1", "0">>, jpg)
f_tmp == toTempName("0", Name(<<"x">>, jpg))

FilePool == {f_1png, f_01jpg, f_20webp, f_IMG_A, f_img_aJPG, f_p9, f_p10, f_tmp}
\* The two directories of the specification's scenarios, and a directory
\* that also holds a file that is no photo
Scenarios == {{f_3jpg, f_1png, f_IMG_A}, {f_5jpg, f_vacation, f_beach, f_20webp},
              {f_20txt, f_1png, f_IMG_A}}
\* Entries that are not regular files (sub-directories)
DirPool == {Name(<<"2", "0">>, jpg), Name(<<"2", "1">>, jpg)}

\* ------------------------------------------------------------------ state
VARIABLES
    files,            \* regular files of PHOTOS_DIR: name -> the content it holds
    others,           \* names of the entries of PHOTOS_DIR that are not regular files
    pc,               \* position of the script
    run,              \* number of the current invocation of the script
    prev,             \* how the previous invocation ended ("none" before the first)
    dir0,             \* files at the start of the current invocation
    protectedCount,   \* protectedFiles.length
    toRenumber,       \* the sorted candidates
    idx,              \* position of the allocation loop in toRenumber
    reservedNumbers,
    nextNum,
    renamePairs,
    tmpPairs,         \* renameSafely's tmpPairs
    k,                \* position of renameSafely's current loop in tmpPairs
    manifest,         \* content of OUTPUT_FILE: the PHOTO_STREAM items
    manifestRun,      \* the invocation that wrote OUTPUT_FILE, 0 when none did
    log,              \* what the current invocation wrote to standard output
    fmt               \* a call of fmtNum: the PAD of the build, the number, the
                      \* rendered string and what the rendered name parses to

vars == <<files, others, pc, run, prev, dir0, protectedCount, toRenumber, idx,
          reservedNumbers, nextNum, renamePairs, tmpPairs, k, manifest,
          manifestRun, log, fmt>>

\* fs.existsSync(path.join(PHOTOS_DIR, name))
exists(name) == name \in DOMAIN files \/ name \in others

\* The orders in which readdirSync may return the set S
Listings(S) == {s \in [1..Cardinality(S) -> S] : \A i, j \in 1..Cardinality(S) : s[i] = s[j] => i = j}

\* Variant: the listing taken when the invocation started is used again
getAllPhotoFiles_Stale == Listings({f \in DOMAIN dir0 : isPhoto(f)})

\* getAllPhotoFiles: the regular files with a photo extension, in listing order
getAllPhotoFiles == Listings({f \in DOMAIN files : isPhoto(f)})

getReservedNumbers(fileSeq) ==
    {parseLeadingNumber(fileSeq[i]) : i \in {j \in 1..Len(fileSeq) : parseLeadingNumber(fileSeq[j]) # Null}}

isProtectedFile(fileName) ==
    LET n == parseLeadingNumber(fileName)
    IN n # Null /\ n >= PROTECT_MIN /\ n <= PROTECT_MAX

\* Variant: only the numbers from START_NUMBER on count as already numbered
isAlreadyNumbered_FloorOnly(fileName) == parseLeadingNumber(fileName) >= START_NUMBER

isAlreadyNumbered(fileName) == parseLeadingNumber(fileName) # Null

\* Variant: every file outside the protected range is a candidate
isCandidate_AllUnprotected(fileName) == ~isProtectedFile(fileName)

isCandidate(fileName) == ~isAlreadyNumbered(fileName)

\* Variant: the target name has no extension
TargetName_NoExt(from, num) == Name(fmtNum(num), <<>>)

\* Lines 143-144: the target name of the candidate from for the number num
TargetName(from, num) == Name(fmtNum(num), ToLowerCase(from.ext))

\* while (reservedNumbers.has(nextNum)) nextNum++
\* Variant: the cursor is used as it is
SkipReserved_NoSkip(reserved, n) == n

RECURSIVE SkipReserved(_, _)
SkipReserved(reserved, n) == IF n \in reserved THEN SkipReserved(reserved, n + 1) ELSE n

\* fs.renameSync(src, dst): throws when src is missing or dst is a directory,
\* otherwise dst holds what src held, replacing what dst held before
RenameThrows(src, dst) == src \notin DOMAIN files \/ dst \in others
Renamed(f, src, dst) ==
    [n \in (DOMAIN f \ {src}) \cup {dst} |-> IF n = dst THEN f[src] ELSE f[n]]

\* The timestamp and random suffix toTempName draws in invocation r
Stamp(r) == DigitChars[r + 1]

\* renameSafely's tmpPairs
MakeTmpPairs(pairs, r) ==
    [i \in 1..Len(pairs) |->
        [from |-> pairs[i].from, tmp |-> toTempName(Stamp(r), pairs[i].from), to |-> pairs[i].to]]

\* Variant: phase 1 renames straight to the final name
Phase1Op_Direct(p) == [src |-> p.from, dst |-> p.to]

\* The rename of a pair in phase 1 and in phase 2
Phase1Op(p) == [src |-> p.from, dst |-> p.tmp]
Phase2Op(p) == [src |-> p.tmp, dst |-> p.to]

\* Variant: the numbered entries stay in listing order
buildPhotoStream_Unsorted(fileSeq) ==
    LET HasNumber(f) == parseLeadingNumber(f) # Null
        HasNoNumber(f) == parseLeadingNumber(f) = Null
        other == SelectSeq(fileSeq, HasNoNumber)
        ordered == SelectSeq(fileSeq, HasNumber) \o SortStable(other, NaturalCmp(other))
    IN [i \in 1..Len(ordered) |-> [src |-> ordered[i], label |-> LABEL]]

buildPhotoStream(fileSeq) ==
    LET HasNumber(f) == parseLeadingNumber(f) # Null
        HasNoNumber(f) == parseLeadingNumber(f) = Null
        numbered == SelectSeq(fileSeq, HasNumber)
        other == SelectSeq(fileSeq, HasNoNumber)
        byNumber == [p \in Range(numbered) \X Range(numbered) |->
                        parseLeadingNumber(p[1]) - parseLeadingNumber(p[2])]
        ordered == SortStable(numbered, byNumber) \o SortStable(other, NaturalCmp(other))
    IN [i \in 1..Len(ordered) |-> [src |-> ordered[i], label |-> LABEL]]

LogLine(line, n, map) == [line |-> line, n |-> n, map |-> map]

\* ------------------------------------------------------------------- Init
Init ==
    /\ \E S \in {T \in SUBSET FilePool : Cardinality(T) <= MaxFiles} \cup Scenarios :
           files = [f \in S |-> f]
    /\ others \in SUBSET DirPool
    /\ pc = "scan"
    /\ run = 1
    /\ prev = "none"
    /\ dir0 = files
    /\ protectedCount = 0
    /\ toRenumber = <<>>
    /\ idx = 1
    /\ reservedNumbers = {}
    /\ nextNum = START_NUMBER
    /\ renamePairs = <<>>
    /\ tmpPairs = <<>>
    /\ k = 1
    /\ manifest = <<>>
    /\ manifestRun = 0
    /\ log = <<>>
    /\ fmt = [pad |-> PAD, n |-> START_NUMBER, str |-> <<>>, parsed |-> Null]

\* ---------------------------------------------------------------- actions
\* Lines 119-138: list, classify, seed the reserved numbers, sort the candidates
Scan ==
    /\ pc = "scan"
    /\ \E allFiles \in getAllPhotoFiles :
           /\ protectedCount' = Len(SelectSeq(allFiles, isProtectedFile))
           /\ reservedNumbers' = getReservedNumbers(SelectSeq(allFiles, isAlreadyNumbered))
           /\ toRenumber' = LET cand == SelectSeq(allFiles, isCandidate)
                           IN SortStable(cand, NaturalCmp(cand))
    /\ nextNum' = START_NUMBER
    /\ renamePairs' = <<>>
    /\ idx' = 1
    /\ pc' = "alloc"
    /\ UNCHANGED <<files, others, run, prev, dir0, tmpPairs, k, manifest, manifestRun, log>>
    /\ UNCHANGED fmt

\* Lines 140-157: one iteration of the allocation loop
AllocStep ==
    /\ pc = "alloc"
    /\ idx <= Len(toRenumber)
    /\ LET from == toRenumber[idx]
           num == SkipReserved(reservedNumbers, nextNum)
           to == TargetName(from, num)
       IN /\ renamePairs' = IF exists(to) THEN renamePairs
                            ELSE Append(renamePairs, [from |-> from, to |-> to])
          /\ reservedNumbers' = reservedNumbers \cup {num}
          /\ nextNum' = num + 1
    /\ idx' = idx + 1
    /\ UNCHANGED <<files, others, pc, run, prev, dir0, protectedCount, toRenumber,
                   tmpPairs, k, manifest, manifestRun, log>>
    /\ UNCHANGED fmt

\* Lines 160-161 and 80-84: the loop is over, there are pairs, renameSafely starts
BeginRename ==
    /\ pc = "alloc"
    /\ idx > Len(toRenumber)
    /\ renamePairs # <<>>
    /\ tmpPairs' = MakeTmpPairs(renamePairs, run)
    /\ k' = 1
    /\ pc' = "phase1"
    /\ UNCHANGED <<files, others, run, prev, dir0, protectedCount, toRenumber, idx,
                   reservedNumbers, nextNum, renamePairs, manifest, manifestRun, log>>
    /\ UNCHANGED fmt

\* Line 160: the loop is over and there is nothing to rename
NoRename ==
    /\ pc = "alloc"
    /\ idx > Len(toRenumber)
    /\ renamePairs = <<>>
    /\ pc' = "manifest"
    /\ UNCHANGED <<files, others, run, prev, dir0, protectedCount, toRenumber, idx,
                   reservedNumbers, nextNum, renamePairs, tmpPairs, k, manifest,
                   manifestRun, log>>
    /\ UNCHANGED fmt

\* Variant: a rename that throws is swallowed and the loop goes on
RenameCall_Swallow(op, pcNext, kNext) ==
    \E ioError \in BOOLEAN :
        /\ files' = IF ioError \/ RenameThrows(op.src, op.dst) THEN files
                    ELSE Renamed(files, op.src, op.dst)
        /\ pc' = pcNext
        /\ k' = kNext

\* One renameSync call of renameSafely: it throws (an I/O failure of the
\* file system, or a missing source or a directory as target) and the
\* script dies, or it renames and the loop goes on
RenameCall(op, pcNext, kNext) ==
    \E ioError \in BOOLEAN :
        IF ioError \/ RenameThrows(op.src, op.dst)
        THEN /\ pc' = "failed"
             /\ UNCHANGED <<files, k>>
        ELSE /\ files' = Renamed(files, op.src, op.dst)
             /\ pc' = pcNext
             /\ k' = kNext

\* Lines 86-88: phase 1, source -> temporary name
Phase1Step ==
    /\ pc = "phase1"
    /\ IF k < Len(tmpPairs)
       THEN RenameCall(Phase1Op(tmpPairs[k]), "phase1", k + 1)
       ELSE RenameCall(Phase1Op(tmpPairs[k]), "phase2", 1)
    /\ UNCHANGED <<others, run, prev, dir0, protectedCount, toRenumber, idx,
                   reservedNumbers, nextNum, renamePairs, tmpPairs, manifest,
                   manifestRun, log>>
    /\ UNCHANGED fmt

\* Lines 91-93: phase 2, temporary name -> final name
Phase2Step ==
    /\ pc = "phase2"
    /\ IF k < Len(tmpPairs)
       THEN RenameCall(Phase2Op(tmpPairs[k]), "phase2", k + 1)
       ELSE RenameCall(Phase2Op(tmpPairs[k]), "manifest", k + 1)
    /\ UNCHANGED <<others, run, prev, dir0, protectedCount, toRenumber, idx,
                   reservedNumbers, nextNum, renamePairs, tmpPairs, manifest,
                   manifestRun, log>>
    /\ UNCHANGED fmt

\* Lines 165-184: fresh listing, manifest, output file, log
WriteManifest ==
    /\ pc = "manifest"
    /\ \E finalFiles \in getAllPhotoFiles :
           LET items == buildPhotoStream(finalFiles)
           IN /\ manifest' = items
              /\ log' = <<LogLine("Protected", protectedCount, <<>>),
                          LogLine("Renamed", Len(renamePairs), <<>>)>>
                        \o (IF renamePairs # <<>>
                            THEN <<LogLine("Rename map", Len(renamePairs), renamePairs)>>
                            ELSE <<>>)
                        \o <<LogLine("PHOTO_STREAM items", Len(items), <<>>)>>
    /\ manifestRun' = run
    /\ pc' = "done"
    /\ UNCHANGED <<files, others, run, prev, dir0, protectedCount, toRenumber, idx,
                   reservedNumbers, nextNum, renamePairs, tmpPairs, k>>
    /\ UNCHANGED fmt

\* The script is invoked again on the directory as the last invocation left it
NextRun ==
    /\ pc \in {"done", "failed"}
    /\ run < MaxRuns
    /\ run' = run + 1
    /\ prev' = pc
    /\ dir0' = files
    /\ pc' = "scan"
    /\ protectedCount' = 0
    /\ toRenumber' = <<>>
    /\ idx' = 1
    /\ reservedNumbers' = {}
    /\ nextNum' = START_NUMBER
    /\ renamePairs' = <<>>
    /\ tmpPairs' = <<>>
    /\ k' = 1
    /\ log' = <<>>
    /\ UNCHANGED <<files, others, manifest, manifestRun>>
    /\ UNCHANGED fmt

Next ==
    \/ Scan
    \/ AllocStep
    \/ BeginRename
    \/ NoRename
    \/ Phase1Step
    \/ Phase2Step
    \/ WriteManifest
    \/ NextRun

Spec == Init /\ [][Next]_vars

\* ------------------------------------------- fmtNum and parseLeadingNumber
\* fmtNum on its own: the build's PAD and the number are drawn from bounded
\* sets, the number is rendered, and the rendered name is parsed back.
InitFmt ==
    /\ files = <<>>
    /\ others = {}
    /\ pc = "scan"
    /\ run = 1
    /\ prev = "none"
    /\ dir0 = <<>>
    /\ protectedCount = 0
    /\ toRenumber = <<>>
    /\ idx = 1
    /\ reservedNumbers = {}
    /\ nextNum = START_NUMBER
    /\ renamePairs = <<>>
    /\ tmpPairs = <<>>
    /\ k = 1
    /\ manifest = <<>>
    /\ manifestRun = 0
    /\ log = <<>>
    /\ \E pad \in 0..MaxPad, n \in START_NUMBER..MaxNum :
           fmt = [pad |-> pad, n |-> n, str |-> <<>>, parsed |-> Null]

\* Lines 33-36 and 144: the number is rendered
Render ==
    /\ fmt.str = <<>>
    /\ fmt' = [fmt EXCEPT !.str = fmtNumWith(fmt.pad, fmt.n)]
    /\ UNCHANGED <<files, others, pc, run, prev, dir0, protectedCount, toRenumber, idx,
                   reservedNumbers, nextNum, renamePairs, tmpPairs, k, manifest,
                   manifestRun, log>>

\* Lines 21-27: the rendered name is parsed on the next scan
ParseBack ==
    /\ fmt.str # <<>>
    /\ fmt.parsed = Null
    /\ fmt' = [fmt EXCEPT !.parsed = parseLeadingNumber(Name(fmt.str, jpg))]
    /\ UNCHANGED <<files, others, pc, run, prev, dir0, protectedCount, toRenumber, idx,
                   reservedNumbers, nextNum, renamePairs, tmpPairs, k, manifest,
                   manifestRun, log>>

NextFmt ==
    \/ Render
    \/ ParseBack

SpecFmt == InitFmt /\ [][NextFmt]_vars

TypeOK ==
    /\ pc \in {"scan", "alloc", "phase1", "phase2", "manifest", "done", "failed"}
    /\ run \in 1..MaxRuns
    /\ nextNum >= START_NUMBER

\* ----------------------------------------------------------------- claims
\* Numeric-named photo files of a set of files, and their numbers
NumericPhotos(f) == {n \in DOMAIN f : isPhoto(n) /\ parseLeadingNumber(n) # Null}
ProtectedPhotos(f) ==
    {n \in NumericPhotos(f) :
        parseLeadingNumber(n) >= PROTECT_MIN /\ parseLeadingNumber(n) <= PROTECT_MAX}
PairNames == {renamePairs[i].from : i \in 1..Len(renamePairs)}
                 \cup {renamePairs[i].to : i \in 1..Len(renamePairs)}
                 \cup {tmpPairs[i].from : i \in 1..Len(tmpPairs)}
                 \cup {tmpPairs[i].tmp : i \in 1..Len(tmpPairs)}
                 \cup {tmpPairs[i].to : i \in 1..Len(tmpPairs)}
DistinctNumbers(S) == \A f, g \in S : f # g => parseLeadingNumber(f) # parseLeadingNumber(g)

\* C1: a photo file whose name is a number of the protected range at the
\* start of a run is in every state of the run still there under that name
\* with the content it had, and is no source, temporary or final name of
\* any rename pair.
C1_ProtectedUntouched ==
    \A f \in ProtectedPhotos(dir0) :
        /\ f \in DOMAIN files
        /\ files[f] = dir0[f]
        /\ f \notin PairNames

\* C1 witness: a run that renamed something is over and the directory held
\* a protected file when it started.
C1_Witness ==
    /\ pc = "done"
    /\ renamePairs # <<>>
    /\ ProtectedPhotos(dir0) # {}

\* C2: a photo file with a purely numeric name of any value keeps its name
\* and content through the run, and every 'from' of a rename pair is a
\* non-numeric name.
C2_NumericNeverCandidate ==
    /\ \A f \in NumericPhotos(dir0) : f \in DOMAIN files /\ files[f] = dir0[f]
    /\ \A i \in 1..Len(renamePairs) :
           /\ parseLeadingNumber(renamePairs[i].from) = Null
           /\ renamePairs[i].from \notin NumericPhotos(dir0)

\* C2 witness: a run that renamed something is over and the directory held
\* a numeric-named file outside the protected range when it started.
C2_Witness ==
    /\ pc = "done"
    /\ renamePairs # <<>>
    /\ \E f \in NumericPhotos(dir0) : parseLeadingNumber(f) > PROTECT_MAX

\* C3 as stated: after a completed run the numbers of the numeric-named
\* photo files are pairwise distinct, whatever the directory held.
C3_Original == pc = "done" => DistinctNumbers(NumericPhotos(files))

\* C3 amended: after a completed run the numbers of the numeric-named photo
\* files are pairwise distinct, provided those of the numeric-named photo
\* files were pairwise distinct when the run started.
C3_DistinctPreserved ==
    (pc = "done" /\ DistinctNumbers(NumericPhotos(dir0)))
        => DistinctNumbers(NumericPhotos(files))

\* C3 witness: a completed run renamed a file next to a numeric-named file
\* that was there before.
C3_Witness ==
    /\ pc = "done"
    /\ renamePairs # <<>>
    /\ NumericPhotos(dir0) # {}
    /\ DistinctNumbers(NumericPhotos(dir0))
    /\ Cardinality(NumericPhotos(files)) > Cardinality(NumericPhotos(dir0))

\* C4: a step of the allocation loop that adds a rename pair assigns a
\* number that is at least START_NUMBER and not in the reserved set of
\* that moment, that no earlier pair of the run has and that no
\* numeric-named photo file of the directory has.
C4_AssignsUnreserved ==
    [][(pc = "alloc" /\ Len(renamePairs') = Len(renamePairs) + 1) =>
          LET n == parseLeadingNumber(renamePairs'[Len(renamePairs')].to)
          IN /\ n >= START_NUMBER
             /\ n \notin reservedNumbers
             /\ \A i \in 1..Len(renamePairs) : parseLeadingNumber(renamePairs[i].to) # n
             /\ \A f \in NumericPhotos(files) : parseLeadingNumber(f) # n]_vars

\* C4 witness: the loop assigned a number above START_NUMBER because
\* START_NUMBER is the number of an existing file.
C4_Witness ==
    /\ pc = "alloc"
    /\ \E f \in NumericPhotos(files) : parseLeadingNumber(f) = START_NUMBER
    /\ \E i \in 1..Len(renamePairs) : parseLeadingNumber(renamePairs[i].to) > START_NUMBER

\* Photo files whose name is not purely numeric
NonNumericPhotos(f) == {n \in DOMAIN f : isPhoto(n) /\ parseLeadingNumber(n) = Null}

\* C5 as stated: a run that follows a completed run builds no rename pair
\* and renames nothing, and a completed run leaves no photo file with a
\* non-numeric name.
C5_Original ==
    /\ (prev = "done" /\ pc # "scan") =>
           (renamePairs = <<>> /\ files = dir0 /\ pc \notin {"phase1", "phase2", "failed"})
    /\ pc = "done" => NonNumericPhotos(files) = {}

\* The part of C5 that the code keeps: a run that follows a completed run
\* builds no rename pair and renames nothing.
C5_SecondRunRenamesNothing ==
    (prev = "done" /\ pc # "scan") =>
        (renamePairs = <<>> /\ files = dir0 /\ pc \notin {"phase1", "phase2", "failed"})

\* C6 as stated: the allocation loop gives every candidate it has passed a
\* rename pair, also when the defensive check found a target name taken.
C6_Original == pc = "alloc" => Len(renamePairs) = idx - 1

\* The part of C6 that the code keeps: the target of a rename pair is a
\* name that nothing in the directory holds.
C6_NoTargetExists == \A i \in 1..Len(renamePairs) : pc = "alloc" => ~exists(renamePairs[i].to)

\* C7: every rename step of renameSafely has a destination that nothing in
\* the directory holds at that moment: in phase 1 the temporary name of the
\* pair at hand, in phase 2 its final name.
C7_DestinationFree ==
    /\ pc = "phase1" => ~exists(tmpPairs[k].tmp)
    /\ pc = "phase2" => ~exists(tmpPairs[k].to)

\* C7 witness: phase 1 succeeded for a batch of several pairs and phase 2
\* is about to rename the last of them.
C7_Witness ==
    /\ pc = "phase2"
    /\ Len(tmpPairs) >= 2
    /\ k = Len(tmpPairs)
    /\ tmpPairs[1].to \in DOMAIN files

\* The stage of the i-th pair of the batch, read off the directory:
\* 0 pending (under its source name), 1 staged (under its temporary name),
\* 2 committed (under its final name), 3 when it is under none of them
PairState(i) ==
    IF tmpPairs[i].from \in DOMAIN files THEN 0
    ELSE IF tmpPairs[i].tmp \in DOMAIN files THEN 1
    ELSE IF tmpPairs[i].to \in DOMAIN files THEN 2
    ELSE 3

\* C8: every pair of a batch is pending, staged or committed and moves one
\* stage at a time; no pair is committed while a pair of the batch is still
\* pending; and within a phase the pairs are taken in rename-pair order, so
\* a pair is never further than a pair before it.
C8_TwoPhaseOrder ==
    /\ [](\A i, j \in 1..Len(tmpPairs) :
              /\ PairState(i) <= 2
              /\ PairState(i) = 2 => PairState(j) >= 1
              /\ i < j => PairState(i) >= PairState(j))
    /\ [][tmpPairs' = tmpPairs =>
              \A i \in 1..Len(tmpPairs) :
                  PairState(i)' = PairState(i) \/ PairState(i)' = PairState(i) + 1]_vars

\* C8 witness: in a batch of several pairs the first pair is committed and
\* the second is staged.
C8_Witness ==
    /\ Len(tmpPairs) >= 2
    /\ PairState(1) = 2
    /\ PairState(2) = 1

\* The directory after the first m rename calls of renameSafely on f
RECURSIVE AfterRenames(_, _)
AfterRenames(f, m) ==
    IF m = 0 THEN f
    ELSE LET n == Len(tmpPairs)
             p == tmpPairs[IF m <= n THEN m ELSE m - n]
         IN IF m <= n THEN Renamed(AfterRenames(f, m - 1), p.from, p.tmp)
            ELSE Renamed(AfterRenames(f, m - 1), p.tmp, p.to)

\* C9: a rename call that fails ends the run; the directory stays as the
\* renames before the failing one left it (nothing after it is attempted,
\* nothing is rolled back); the run does not write the output file and
\* logs nothing.
C9_FailureIsFatal ==
    /\ [](pc = "failed" =>
              /\ log = <<>>
              /\ manifestRun < run
              /\ \/ files = AfterRenames(dir0, k - 1)
                 \/ files = AfterRenames(dir0, Len(tmpPairs) + k - 1))
    /\ [][/\ (pc \in {"phase1", "phase2"} /\ files' = files) => pc' = "failed"
          /\ pc = "failed" =>
                 (files' = files /\ manifest' = manifest /\ manifestRun' = manifestRun)]_vars

\* C9 witness: a run died in phase 2 with one pair committed and one
\* staged.
C9_Witness ==
    /\ pc = "failed"
    /\ files # dir0
    /\ \E i, j \in 1..Len(tmpPairs) : PairState(i) = 2 /\ PairState(j) = 1

\* C10: the manifest of a completed run lists the numeric-named entries
\* first, in ascending order of their number, then the other entries in
\* natural order; the directory {3.jpg, 1.png, IMG_A.jpg} gives
\* [1.png, 3.jpg, 20.jpg].
C10_ManifestOrder ==
    pc = "done" =>
        /\ \E m \in 0..Len(manifest) :
               /\ \A i \in 1..m : parseLeadingNumber(manifest[i].src) # Null
               /\ \A i \in (m + 1)..Len(manifest) : parseLeadingNumber(manifest[i].src) = Null
               /\ \A i, j \in 1..m :
                      i < j => parseLeadingNumber(manifest[i].src) <= parseLeadingNumber(manifest[j].src)
               /\ \A i, j \in (m + 1)..Len(manifest) :
                      i < j => naturalSort(manifest[i].src, manifest[j].src) <= 0
        /\ (DOMAIN dir0 = {f_3jpg, f_1png, f_IMG_A} /\ others = {}) =>
               manifest = <<[src |-> f_1png, label |-> LABEL],
                            [src |-> f_3jpg, label |-> LABEL],
                            [src |-> Name(<<"2", "0">>, jpg), label |-> LABEL]>>

\* C10 witness: the manifest of a completed run holds a numeric-named entry
\* followed by p9.jpg and then p10.jpg.
C10_Witness ==
    /\ pc = "done"
    /\ Len(manifest) = 3
    /\ parseLeadingNumber(manifest[1].src) # Null
    /\ manifest[2].src = f_p9
    /\ manifest[3].src = f_p10

\* The names the manifest lists, and the photo files of a set of files
ManifestNames == {manifest[i].src : i \in 1..Len(manifest)}
Photos(f) == {n \in DOMAIN f : isPhoto(n)}

\* C11: the manifest of a completed run has exactly one entry for each
\* photo file the directory holds after the renames: a renamed file is
\* listed under its final name and under neither its original nor its
\* temporary name, and there are as many entries as photo files.
C11_ManifestIsFinalState ==
    pc = "done" =>
        /\ ManifestNames = Photos(files)
        /\ Len(manifest) = Cardinality(Photos(files))
        /\ \A i \in 1..Len(tmpPairs) :
               /\ tmpPairs[i].to \in ManifestNames
               /\ tmpPairs[i].from \notin ManifestNames
               /\ tmpPairs[i].tmp \notin ManifestNames

\* C11 witness: a completed run renamed two files and its manifest lists
\* both final names.
C11_Witness ==
    /\ pc = "done"
    /\ Len(tmpPairs) = 2
    /\ {tmpPairs[1].to, tmpPairs[2].to} \subseteq ManifestNames

\* The numbers of the numeric-named photo files of f, and the j-th smallest
\* integer from n on that is not in the set taken
NumbersOf(f) == {parseLeadingNumber(n) : n \in NumericPhotos(f)}
RECURSIVE KthFree(_, _, _)
KthFree(taken, n, j) ==
    IF n \in taken THEN KthFree(taken, n + 1, j)
    ELSE IF j = 1 THEN n
    ELSE KthFree(taken, n + 1, j - 1)

\* The allocation loop of the current invocation is over
Allocated == (pc = "alloc" /\ idx > Len(toRenumber)) \/ pc \in {"phase1", "phase2", "manifest", "done"}

\* The j-th candidate got a rename pair with the j-th free number
GapFilled(j) ==
    \E i \in 1..Len(renamePairs) :
        /\ renamePairs[i].from = toRenumber[j]
        /\ parseLeadingNumber(renamePairs[i].to)
               = KthFree(NumbersOf(dir0), START_NUMBER, j)

\* C12 as stated: when the allocation loop is over, the j-th candidate in
\* natural order has a rename pair whose number is the j-th smallest
\* integer >= START_NUMBER that no numeric-named file of the directory
\* has; the directory {5.jpg, vacation.png, beach.jpg, 20.webp} gives
\* beach.jpg -> 21.jpg and vacation.png -> 22.png.
C12_Original ==
    Allocated =>
        /\ \A j \in 1..Len(toRenumber) : GapFilled(j)
        /\ \A i, j \in 1..Len(toRenumber) : i < j => naturalSort(toRenumber[i], toRenumber[j]) <= 0
        /\ DOMAIN dir0 = {f_5jpg, f_vacation, f_beach, f_20webp} =>
               renamePairs = <<[from |-> f_beach, to |-> Name(<<"2", "1">>, jpg)],
                               [from |-> f_vacation, to |-> Name(<<"2", "2">>, png)]>>

\* The part of C12 that the code keeps: the same, for the runs in which
\* the defensive check never finds a target name taken.
C12_GapFillingWithoutCollision ==
    (Allocated /\ Len(renamePairs) = Len(toRenumber)) =>
        /\ \A j \in 1..Len(toRenumber) : GapFilled(j)
        /\ \A i, j \in 1..Len(toRenumber) : i < j => naturalSort(toRenumber[i], toRenumber[j]) <= 0
        /\ DOMAIN dir0 = {f_5jpg, f_vacation, f_beach, f_20webp} =>
               renamePairs = <<[from |-> f_beach, to |-> Name(<<"2", "1">>, jpg)],
                               [from |-> f_vacation, to |-> Name(<<"2", "2">>, png)]>>

\* C13 as stated: the manifest of a completed run is the one that every
\* order of the directory listing gives for the files of the directory.
C13_Original ==
    pc = "done" => \A listing \in getAllPhotoFiles : buildPhotoStream(listing) = manifest

\* The part of C13 that the code keeps: the manifest does not depend on the
\* order of the listing when no two numeric-named files have the same
\* number and no two other files compare equal under naturalSort.
C13_DeterministicWithoutTies ==
    (/\ pc = "done"
     /\ DistinctNumbers(NumericPhotos(files))
     /\ \A f, g \in NonNumericPhotos(files) : f # g => naturalSort(f, g) # 0)
        => \A listing \in getAllPhotoFiles : buildPhotoStream(listing) = manifest

\* C14: fmtNum renders n as its decimal digits left-padded with zeros to
\* the width PAD and never shorter than the digits of n (20 is 020 for
\* PAD = 3, plain for PAD = 0), and the rendered name parses back to n, so
\* it is classified as already numbered.
C14_PaddingRoundTrip ==
    /\ fmt.str # <<>> =>
           LET digits == StringOfNum(fmt.n)
               lead == Len(fmt.str) - Len(digits)
           IN /\ Len(fmt.str) = (IF fmt.pad > Len(digits) THEN fmt.pad ELSE Len(digits))
              /\ \A i \in 1..lead : fmt.str[i] = "0"
              /\ \A i \in 1..Len(digits) : fmt.str[lead + i] = digits[i]
              /\ (fmt.pad = 3 /\ fmt.n = 20) => fmt.str = <<"0", "2", "0">>
              /\ (fmt.pad = 0 /\ fmt.n = 20) => fmt.str = <<"2", "0">>
    /\ fmt.parsed # Null =>
           /\ fmt.parsed = fmt.n
           /\ isAlreadyNumbered(Name(fmt.str, jpg))

\* C14 witness: with PAD = 3 the number 20 was rendered as 020 and parsed
\* back to 20.
C14_Witness ==
    /\ fmt.pad = 3
    /\ fmt.n = 20
    /\ fmt.str = <<"0", "2", "0">>
    /\ fmt.parsed = 20

\* C15: the numbers of the rename pairs are strictly increasing in list
\* order and the sources are in natural-sort order, so a candidate that
\* sorts earlier never has a larger number than one that sorts later, also
\* when the defensive check has dropped candidates.
C15_PairsIncreasing ==
    \A i, j \in 1..Len(renamePairs) :
        i < j =>
            /\ parseLeadingNumber(renamePairs[i].to) < parseLeadingNumber(renamePairs[j].to)
            /\ naturalSort(renamePairs[i].from, renamePairs[j].from) <= 0

\* C15 witness: the loop is over, the defensive check fired for one
\* candidate, and two others got pairs.
C15_Witness ==
    /\ pc = "alloc"
    /\ idx > Len(toRenumber)
    /\ Len(toRenumber) = 3
    /\ Len(renamePairs) = 2
    /\ naturalSort(renamePairs[1].from, renamePairs[2].from) < 0

\* C16 as stated: the final name of a rename pair has the extension of its
\* source.
C16_Original ==
    \A i \in 1..Len(renamePairs) : renamePairs[i].to.ext = renamePairs[i].from.ext

\* C16 amended: the final name of a rename pair is the rendered assigned
\* number followed by the extension of its source in lower case, so the
\* renamed file has the extension it had up to the case of its letters.
C16_LowerCasedExtension ==
    \A i \in 1..Len(renamePairs) :
        LET from == renamePairs[i].from
            to == renamePairs[i].to
        IN /\ parseLeadingNumber(to) >= START_NUMBER
           /\ to.base = StringOfNum(parseLeadingNumber(to))
           /\ Len(to.ext) = Len(from.ext)
           /\ \A c \in 1..Len(to.ext) :
                  /\ to.ext[c] \notin Range(UpperChars)
                  /\ \/ to.ext[c] = from.ext[c]
                     \/ /\ from.ext[c] \in Range(UpperChars)
                        /\ to.ext[c] = LowerChars[IndexOf(from.ext[c], UpperChars)]
           /\ (pc = "done" => (to \in DOMAIN files /\ files[to] = dir0[from]))

\* C16 witness: a completed run renamed a file with an upper-case extension
\* to a name with the extension in lower case.
C16_Witness ==
    /\ pc = "done"
    /\ \E i \in 1..Len(renamePairs) :
           /\ renamePairs[i].from.ext = <<"J", "P", "G">>
           /\ renamePairs[i].to.ext = jpg
           /\ renamePairs[i].to \in DOMAIN files

\* The sources of the rename pairs, and the names that hold the content c
PairSources == {renamePairs[i].from : i \in 1..Len(renamePairs)}
HoldersOf(c) == {n \in DOMAIN files : files[n] = c}

\* C17: while no rename has failed, the directory holds what it held when
\* the run started: as many files and photo files, every content under one
\* name, and every file that is no source of a rename pair under its
\* name; when the run is over, the content of each source of a rename pair
\* is under its final name and under no other.
C17_Conservation ==
    pc # "failed" =>
        /\ Cardinality(DOMAIN files) = Cardinality(DOMAIN dir0)
        /\ Cardinality(Photos(files)) = Cardinality(Photos(dir0))
        /\ \A f \in DOMAIN dir0 : Cardinality(HoldersOf(dir0[f])) = 1
        /\ \A f \in DOMAIN dir0 \ PairSources : f \in DOMAIN files /\ files[f] = dir0[f]
        /\ pc = "done" =>
               \A i \in 1..Len(renamePairs) :
                   HoldersOf(dir0[renamePairs[i].from]) = {renamePairs[i].to}

\* C17 witness: a completed run renamed two files next to a file that was
\* no candidate.
C17_Witness ==
    /\ pc = "done"
    /\ Len(renamePairs) = 2
    /\ DOMAIN dir0 \ PairSources # {}
    /\ HoldersOf(dir0[renamePairs[2].from]) = {renamePairs[2].to}

\* A name that toTempName made
IsTempName(f) == Len(f.base) > 10 /\ SubSeq(f.base, 1, 7) = <<"_", "_", "t", "m", "p", "_", "_">>
TempPhotos(f) == {n \in DOMAIN f : isPhoto(n) /\ IsTempName(n)}

\* A temporary-named file t of the start of the run has a rename pair
\* whose final name and number were free when the run started
Recovered(t) ==
    \E i \in 1..Len(renamePairs) :
        /\ renamePairs[i].from = t
        /\ parseLeadingNumber(renamePairs[i].to) >= START_NUMBER
        /\ parseLeadingNumber(renamePairs[i].to) \notin NumbersOf(dir0)
        /\ renamePairs[i].to \notin DOMAIN dir0
        /\ (pc = "done" => HoldersOf(dir0[t]) = {renamePairs[i].to})

\* C18 as stated: in a run that follows a failed run, a file left under a
\* temporary name is a photo file with a non-numeric name and a candidate;
\* when the run completes, each such file is renamed to a free numeric
\* name >= START_NUMBER, no temporary-named photo file is left, and the
\* numbers of the directory are as distinct as before.
C18_Original ==
    (prev = "failed" /\ Allocated) =>
        /\ \A t \in DOMAIN dir0 :
               IsTempName(t) => (isPhoto(t) /\ parseLeadingNumber(t) = Null /\ t \in Range(toRenumber))
        /\ pc = "done" =>
               /\ \A t \in TempPhotos(dir0) : Recovered(t)
               /\ TempPhotos(files) = {}
               /\ (DistinctNumbers(NumericPhotos(dir0)) => DistinctNumbers(NumericPhotos(files)))

\* The part of C18 that the code keeps: the same, for the runs in which
\* the defensive check never finds a target name taken.
C18_RecoveryWithoutCollision ==
    (prev = "failed" /\ Allocated /\ Len(renamePairs) = Len(toRenumber)) =>
        /\ \A t \in DOMAIN dir0 :
               IsTempName(t) => (isPhoto(t) /\ parseLeadingNumber(t) = Null /\ t \in Range(toRenumber))
        /\ pc = "done" =>
               /\ \A t \in TempPhotos(dir0) : Recovered(t)
               /\ TempPhotos(files) = {}
               /\ (DistinctNumbers(NumericPhotos(dir0)) => DistinctNumbers(NumericPhotos(files)))

\* A run after a failed run completed, the failed run had left a
\* temporary-named file next to a committed one, and none is left.
C18_RecoveryReached ==
    /\ prev = "failed"
    /\ pc = "done"
    /\ TempPhotos(dir0) # {}
    /\ \E f \in NumericPhotos(dir0) : parseLeadingNumber(f) >= START_NUMBER
    /\ TempPhotos(files) = {}

====
